---- MODULE Spec2Model ----
(***************************************************************************)
(* BookByte backend, app/core/services.py: OpenAIService.                  *)
(*                                                                         *)
(* process_book_text splits the book text into chunks, sends each chunk to *)
(* the chat-completion backend and turns each completion text into a list  *)
(* of paragraphs (_process_single_chunk), accumulating the lists in order. *)
(*                                                                         *)
(* Texts are sequences of lexical tokens.  A token stands for the          *)
(* characters of its string: "{" "}" "[" "]" ":" "," stand for themselves, *)
(* "\"" is the double quote, " " is whitespace, "~~~" is a markdown fence, *)
(* "json" and "paragraphs" are those words, "a" and "b" are letters and    *)
(* "1" is a digit.  No token is a substring of a run of other tokens, so   *)
(* substring tests on the characters are substring tests on the tokens.    *)
(***************************************************************************)
EXTENDS Integers, Sequences, FiniteSets, TLC

VARIABLES api_key, book_text, chunk_size, pc, text_chunks, sub_index,
          all_paragraphs, calls, returned, response, outcome, result

vars == <<api_key, book_text, chunk_size, pc, text_chunks, sub_index,
          all_paragraphs, calls, returned, response, outcome, result>>

(***************************************************************************)
(* Sequence helpers.                                                       *)
(***************************************************************************)
Min(a, b) == IF a <= b THEN a ELSE b

\* The sequences over S of length at most n.
SeqsUpTo(S, n) == UNION {[1..k -> S] : k \in 0..n}

RECURSIVE Flatten(_)
\* list.extend applied to each list of ls in order, from the empty list.
Flatten(ls) == IF ls = <<>> THEN <<>> ELSE Head(ls) \o Flatten(Tail(ls))

RECURSIVE IndexFrom(_, _, _)
\* str.find(tok, i): the first position >= i holding tok, 0 when there is none.
IndexFrom(s, tok, i) ==
  IF i > Len(s) THEN 0
  ELSE IF s[i] = tok THEN i
  ELSE IndexFrom(s, tok, i + 1)

RECURSIVE LastIndexUpTo(_, _, _)
\* The last position <= i holding tok, 0 when there is none.
LastIndexUpTo(s, tok, i) ==
  IF i < 1 THEN 0
  ELSE IF s[i] = tok THEN i
  ELSE LastIndexUpTo(s, tok, i - 1)

\* `tok in text` for a one-token needle.
Contains(s, tok) == IndexFrom(s, tok, 1) # 0

RECURSIVE Count(_, _, _)
\* str.count(tok) over positions i..Len(s).
Count(s, tok, i) ==
  IF i > Len(s) THEN 0
  ELSE (IF s[i] = tok THEN 1 ELSE 0) + Count(s, tok, i + 1)

RECURSIVE Repeat(_, _)
\* tok * n
Repeat(tok, n) == IF n <= 0 THEN <<>> ELSE <<tok>> \o Repeat(tok, n - 1)

RECURSIVE SkipWs(_, _)
\* The first position >= i that holds no whitespace (a greedy \s*).
SkipWs(s, i) == IF i <= Len(s) /\ s[i] = " " THEN SkipWs(s, i + 1) ELSE i

RECURSIVE TrimEnd(_, _, _)
\* The last position in i..e that holds no whitespace, i - 1 when all do.
TrimEnd(s, i, e) == IF e >= i /\ s[e] = " " THEN TrimEnd(s, i, e - 1) ELSE e

(***************************************************************************)
(* json.loads.  A JSON value is a record of one shape, so that any two     *)
(* values compare: t is the Python type, s the tokens of a str or int,     *)
(* items the elements of a list, members the key/value pairs of a dict in  *)
(* document order.                                                         *)
(***************************************************************************)
JStr(toks) == [t |-> "str", s |-> toks, items |-> <<>>, members |-> <<>>]
JNum(toks) == [t |-> "int", s |-> toks, items |-> <<>>, members |-> <<>>]
JList(xs) == [t |-> "list", s |-> <<>>, items |-> xs, members |-> <<>>]
JDict(ms) == [t |-> "dict", s |-> <<>>, items |-> <<>>, members |-> ms]
JNone == [t |-> "None", s |-> <<>>, items |-> <<>>, members |-> <<>>]

\* A decoding step: ok, the value and the position after it.
Decoded(v, p) == [ok |-> TRUE, val |-> v, pos |-> p]
DecodeError == [ok |-> FALSE, val |-> JNone, pos |-> 0]

RECURSIVE DigitsEnd(_, _)
\* The position after the run of digits starting at i.
DigitsEnd(s, i) == IF i <= Len(s) /\ s[i] = "1" THEN DigitsEnd(s, i + 1) ELSE i

RECURSIVE ParseValue(_, _)
RECURSIVE ParseArrayItems(_, _, _)
RECURSIVE ParseObjectMembers(_, _, _)

\* json.scanner scan_once at position i: a string, an object, an array or a
\* number; anything else is "Expecting value".
ParseValue(s, i) ==
  IF i > Len(s) THEN DecodeError
  ELSE IF s[i] = "\"" THEN
    LET q == IndexFrom(s, "\"", i + 1)
    IN  IF q = 0 THEN DecodeError
        ELSE Decoded(JStr(SubSeq(s, i + 1, q - 1)), q + 1)
  ELSE IF s[i] = "{" THEN
    LET j == SkipWs(s, i + 1)
    IN  IF j <= Len(s) /\ s[j] = "}" THEN Decoded(JDict(<<>>), j + 1)
        ELSE ParseObjectMembers(s, j, <<>>)
  ELSE IF s[i] = "[" THEN
    LET j == SkipWs(s, i + 1)
    IN  IF j <= Len(s) /\ s[j] = "]" THEN Decoded(JList(<<>>), j + 1)
        ELSE ParseArrayItems(s, j, <<>>)
  ELSE IF s[i] = "1" THEN
    LET e == DigitsEnd(s, i)
    IN  Decoded(JNum(SubSeq(s, i, e - 1)), e)
  ELSE DecodeError

\* json.decoder JSONArray after "[" and whitespace, acc the items so far.
ParseArrayItems(s, i, acc) ==
  LET v == ParseValue(s, i)
  IN  IF ~v.ok THEN DecodeError
      ELSE LET e == SkipWs(s, v.pos)
               acc2 == Append(acc, v.val)
           IN  IF e > Len(s) THEN DecodeError
               ELSE IF s[e] = "]" THEN Decoded(JList(acc2), e + 1)
               ELSE IF s[e] = "," THEN ParseArrayItems(s, SkipWs(s, e + 1), acc2)
               ELSE DecodeError

\* json.decoder JSONObject at the opening quote of a key, acc the pairs so far.
ParseObjectMembers(s, i, acc) ==
  IF i > Len(s) \/ s[i] # "\"" THEN DecodeError
  ELSE
    LET q == IndexFrom(s, "\"", i + 1)
    IN  IF q = 0 THEN DecodeError
        ELSE
          LET c == SkipWs(s, q + 1)
          IN  IF c > Len(s) \/ s[c] # ":" THEN DecodeError
              ELSE
                LET v == ParseValue(s, SkipWs(s, c + 1))
                IN  IF ~v.ok THEN DecodeError
                    ELSE
                      LET e == SkipWs(s, v.pos)
                          acc2 == Append(acc, [k |-> SubSeq(s, i + 1, q - 1),
                                              v |-> v.val])
                      IN  IF e > Len(s) THEN DecodeError
                          ELSE IF s[e] = "}" THEN Decoded(JDict(acc2), e + 1)
                          ELSE IF s[e] = ","
                            THEN ParseObjectMembers(s, SkipWs(s, e + 1), acc2)
                          ELSE DecodeError

\* json.loads(s): one value between optional whitespace, nothing after it;
\* ok = FALSE is JSONDecodeError.
JsonLoads(s) ==
  LET v == ParseValue(s, SkipWs(s, 1))
  IN  IF v.ok /\ SkipWs(s, v.pos) = Len(s) + 1 THEN v ELSE DecodeError

RECURSIVE LastMember(_, _, _)
\* dict.get(key): the value of the last pair with that key (a later
\* duplicate key overwrites an earlier one), None when the key is absent.
LastMember(ms, key, i) ==
  IF i < 1 THEN JNone
  ELSE IF ms[i].k = key THEN ms[i].v
  ELSE LastMember(ms, key, i - 1)

DictGet(d, key) == LastMember(d.members, key, Len(d.members))

\* Python truth value of a decoded JSON value is False.
Falsy(v) ==
  \/ v.t = "None"
  \/ v.t = "str" /\ v.s = <<>>
  \/ v.t = "list" /\ v.items = <<>>
  \/ v.t = "dict" /\ v.members = <<>>

(***************************************************************************)
(* The regular expressions of _process_single_chunk.  A search result is   *)
(* found and, when found, the matched group.                               *)
(***************************************************************************)
Match(g) == [found |-> TRUE, group |-> g]
NoMatch == [found |-> FALSE, group |-> <<>>]

RECURSIVE JsonFenceIndex(_, _)
\* text.find('```json') from i: the first fence followed by the word json.
JsonFenceIndex(s, i) ==
  IF i + 1 > Len(s) THEN 0
  ELSE IF s[i] = "~~~" /\ s[i + 1] = "json" THEN i
  ELSE JsonFenceIndex(s, i + 1)

\* re.search(r'```json\s*([\s\S]*?)\s*```') for width 2 and
\* re.search(r'```\s*([\s\S]*?)\s*```') for width 1, the opener at open:
\* the greedy \s* runs to b, the lazy group stops before the whitespace that
\* precedes the next fence.
FencedBlock(s, open, width) ==
  LET b == SkipWs(s, open + width)
      k == IndexFrom(s, "~~~", b)
  IN  IF open = 0 \/ k = 0 THEN NoMatch
      ELSE Match(SubSeq(s, b, TrimEnd(s, b, k - 1)))

\* Lines 157-171: the text the JSON object is searched in.
FenceStripped(text) ==
  IF JsonFenceIndex(text, 1) # 0 THEN
    LET m == FencedBlock(text, JsonFenceIndex(text, 1), 2)
    IN  IF m.found THEN m.group ELSE text
  ELSE IF Contains(text, "~~~") THEN
    LET m == FencedBlock(text, IndexFrom(text, "~~~", 1), 1)
    IN  IF m.found THEN m.group ELSE text
  ELSE text

\* \{\s*"paragraphs"\s*:\s*\[ matched at i: the position of its "[", else 0.
ParagraphsHeaderEnd(s, i) ==
  IF s[i] # "{" THEN 0
  ELSE
    LET j == SkipWs(s, i + 1)
    IN  IF j + 2 > Len(s) \/ s[j] # "\"" \/ s[j + 1] # "paragraphs"
           \/ s[j + 2] # "\"" THEN 0
        ELSE
          LET c == SkipWs(s, j + 3)
          IN  IF c > Len(s) \/ s[c] # ":" THEN 0
              ELSE LET b == SkipWs(s, c + 1)
                   IN  IF b > Len(s) \/ s[b] # "[" THEN 0 ELSE b

RECURSIVE ArrayCloser(_, _)
\* [\s\S]*?\]\s*\} from p: the "}" of the first "]" \s* "}" at or after p,
\* 0 when there is none.
ArrayCloser(s, p) ==
  LET r == IndexFrom(s, "]", p)
  IN  IF r = 0 THEN 0
      ELSE LET c == SkipWs(s, r + 1)
           IN  IF c <= Len(s) /\ s[c] = "}" THEN c ELSE ArrayCloser(s, r + 1)

RECURSIVE SearchParagraphsObject(_, _)
\* re.search(r'\{\s*"paragraphs"\s*:\s*\[[\s\S]*?\]\s*\}') from i: the
\* leftmost start that matches, ended at the nearest closer.
SearchParagraphsObject(s, i) ==
  IF i > Len(s) THEN NoMatch
  ELSE
    LET h == ParagraphsHeaderEnd(s, i)
        e == IF h = 0 THEN 0 ELSE ArrayCloser(s, h + 1)
    IN  IF e # 0 THEN Match(SubSeq(s, i, e))
        ELSE SearchParagraphsObject(s, i + 1)

\* re.search(r'\{[\s\S]*\}'): from the first "{" to the last "}".
SearchAnyObject(s) ==
  LET i == IndexFrom(s, "{", 1)
      e == LastIndexUpTo(s, "}", Len(s))
  IN  IF i # 0 /\ e > i THEN Match(SubSeq(s, i, e)) ELSE NoMatch

\* Lines 177-181: the structured pattern first, any object as the fallback.
JsonObjectMatch(json_text) ==
  LET m == SearchParagraphsObject(json_text, 1)
  IN  IF m.found THEN m ELSE SearchAnyObject(json_text)

\* Lines 195-198: append the closers the candidate is short of.
RepairBrackets(json_str) ==
  LET a == json_str \o Repeat("]", Count(json_str, "[", 1) - Count(json_str, "]", 1))
  IN  a \o Repeat("}", Count(a, "{", 1) - Count(a, "}", 1))

(***************************************************************************)
(* _process_single_chunk.  Its outcome is a returned list or a raised      *)
(* exception; stage names the statement that produced it, error the        *)
(* exception's cause, warned whether the truncation warning was printed.   *)
(***************************************************************************)
Returned(paras, stage, warned) ==
  [kind |-> "return", paragraphs |-> paras, error |-> "none",
   stage |-> stage, warned |-> warned]

Raised(error, stage, warned) ==
  [kind |-> "raise", paragraphs |-> <<>>, error |-> error,
   stage |-> stage, warned |-> warned]

\* message.content of a completion that carries no text.
NoneContent == <<"None">>

\* Line 129: completion.choices[0].message.content or "".
TextContent(content) == IF content = NoneContent THEN <<>> ELSE content

\* Faulty variant of IsEmptyResponse: the empty-response check is missing.
IsEmptyResponseNever(text_content) == FALSE

\* Line 136: not text_content or len(text_content) == 0.
IsEmptyResponse(text_content) == text_content = <<>>

\* Line 142: '{' not in text_content or 'paragraphs' not in text_content.
NoExtractableParagraphs(text_content) ==
  ~Contains(text_content, "{") \/ ~Contains(text_content, "paragraphs")

\* Faulty variant of TruncationWarning: a truncated completion is given up.
TruncationWarningAborts(finish_reason) ==
  [warned |-> finish_reason = "length", abort |-> finish_reason = "length"]

\* Lines 146-147: a "length" finish prints a warning and nothing else.
TruncationWarning(finish_reason) ==
  [warned |-> finish_reason = "length", abort |-> FALSE]

\* Lines 209-212: the checks on the decoded value.  A value that is not a
\* dict has no .get: AttributeError, caught and re-raised at lines 214-219.
ValidateParsed(parsed, stage, warned) ==
  IF Falsy(parsed) THEN Raised("invalid_format", stage, warned)
  ELSE IF parsed.t # "dict" THEN Raised("attribute_error", stage, warned)
  ELSE
    LET p == DictGet(parsed, <<"paragraphs">>)
    IN  IF Falsy(p) \/ p.t # "list" THEN Raised("invalid_format", stage, warned)
        ELSE Returned(p.items, stage, warned)

\* Lines 157-207: the recovery after json.loads(text_content) failed.
RecoverJson(text_content, warned) ==
  LET m == JsonObjectMatch(FenceStripped(text_content))
  IN  IF ~m.found THEN
        IF text_content # <<>> THEN Returned(<<>>, "no_candidate", warned)
        ELSE Raised("no_json", "no_candidate", warned)
      ELSE
        LET parsed == JsonLoads(RepairBrackets(m.group))
        IN  IF parsed.ok THEN ValidateParsed(parsed.val, "recovered", warned)
            ELSE Returned(<<>>, "unparseable", warned)

\* Lines 129-212: from the completion to the paragraphs.
ProcessCompletion(content, finish_reason) ==
  LET text_content == TextContent(content)
      w == TruncationWarning(finish_reason)
  IN  IF IsEmptyResponse(text_content)
        THEN Raised("empty_response", "empty", FALSE)
      ELSE IF NoExtractableParagraphs(text_content)
        THEN Returned(<<>>, "gate", FALSE)
      ELSE IF w.abort THEN Raised("truncated", "finish", w.warned)
      ELSE
        LET direct == JsonLoads(text_content)
        IN  IF direct.ok THEN ValidateParsed(direct.val, "direct", w.warned)
            ELSE RecoverJson(text_content, w.warned)

\* Faulty variant of ProcessSingleChunk: a failed call is swallowed as no paragraphs.
ProcessSingleChunkSwallow(resp) ==
  IF resp.api_error THEN Returned(<<>>, "api", FALSE)
  ELSE ProcessCompletion(resp.content, resp.finish_reason)

\* Lines 109-219: the backend call, then the completion's processing.
ProcessSingleChunk(resp) ==
  IF resp.api_error THEN Raised("api_call_failed", "api", FALSE)
  ELSE ProcessCompletion(resp.content, resp.finish_reason)

(***************************************************************************)
(* _chunk_book_text and process_book_text.                                 *)
(***************************************************************************)
RECURSIVE ChunkLoopFullOnly(_, _, _, _)
\* Faulty variant of ChunkLoop: the loop stops when no full chunk is left.
ChunkLoopFullOnly(text, size, current_index, chunks) ==
  IF current_index + size <= Len(text) THEN
    ChunkLoopFullOnly(text, size, current_index + size,
                      Append(chunks, SubSeq(text, current_index + 1,
                                            current_index + size)))
  ELSE chunks

RECURSIVE ChunkLoop(_, _, _, _)
\* Lines 67-72: the while loop, current_index counted from 0 as in the
\* code; text[current_index:current_index + chunk_size] stops at the end of
\* the text.
ChunkLoop(text, size, current_index, chunks) ==
  IF current_index < Len(text) THEN
    ChunkLoop(text, size, current_index + size,
              Append(chunks, SubSeq(text, current_index + 1,
                                    Min(current_index + size, Len(text)))))
  ELSE chunks

\* Faulty variant of ChunkBookText: a short last chunk is joined to the one before.
ChunkBookTextJoinTail(text, size) ==
  LET c == ChunkLoop(text, size, 0, <<>>)
      n == Len(c)
  IN  IF n >= 2 /\ Len(c[n]) < size
        THEN Append(SubSeq(c, 1, n - 2), c[n - 1] \o c[n])
        ELSE c

\* Lines 53-72: _chunk_book_text(text, chunk_size).
ChunkBookText(text, size) == ChunkLoop(text, size, 0, <<>>)

\* Faulty variant of Extend: the new paragraphs go in front.
ExtendFront(acc, paragraphs) == paragraphs \o acc

\* Line 44: all_paragraphs.extend(paragraphs).
Extend(acc, paragraphs) == acc \o paragraphs

\* Lines 47-51: the returned dict.
AggregateResult(paragraphs) ==
  [status |-> "success", paragraphs |-> paragraphs,
   total_paragraphs |-> Len(paragraphs), error |-> "none"]

\* process_book_text left by an exception: nothing is returned.
Failure(error) ==
  [status |-> "raised", paragraphs |-> <<>>, total_paragraphs |-> 0,
   error |-> error]

NoResult ==
  [status |-> "none", paragraphs |-> <<>>, total_paragraphs |-> 0,
   error |-> "none"]

NoOutcome ==
  [kind |-> "none", paragraphs |-> <<>>, error |-> "none",
   stage |-> "none", warned |-> FALSE]

\* What the backend did with one call: the call failed (api_error), or it
\* answered with message.content and finish_reason.  shape records how the
\* content was made, for the properties that speak of one kind of text.
Response(api_error, content, finish_reason, shape) ==
  [api_error |-> api_error, content |-> content,
   finish_reason |-> finish_reason, shape |-> shape]

NoResponse == Response(FALSE, <<>>, "none", "none")

FinishReasons == {"stop", "length"}

(***************************************************************************)
(* The completion texts the backend answers with.                          *)
(***************************************************************************)
MaxTextLen == 3
MaxChunkSize == 2
MaxParas == 2
MaxParaTokens == 2
MaxShortLen == 2

Alphabet ==
  {"{", "}", "[", "]", "\"", ":", ",", " ", "~~~", "json", "paragraphs",
   "a", "1"}

BookAlphabet == {"a", "b"}

\* What a paragraph string is made of: a letter and the characters the
\* recovery stages look for.  A paragraph holds no quote and no backslash,
\* so its JSON string is the paragraph between two quotes.
ParaAlphabet == {"a", "{", "}", "]", "~~~"}

RECURSIVE ListsWithin(_, _)
\* The lists of at most n paragraphs holding at most budget tokens in all.
ListsWithin(n, budget) ==
  IF n = 0 THEN {<<>>}
  ELSE {<<>>} \cup
       UNION {{<<p>> \o rest : rest \in ListsWithin(n - 1, budget - Len(p))} :
              p \in SeqsUpTo(ParaAlphabet, budget)}

\* A paragraph that quotes an empty object between fences, and plain ones.
LongParaLists ==
  {<< <<"~~~", "{", "}", "~~~">> >>,
   << <<"a", " ", "a">>, <<"a">> >>}

ParaLists == ListsWithin(MaxParas, MaxParaTokens) \cup LongParaLists

RECURSIVE JoinStrings(_)
\* "p1","p2",...
JoinStrings(pl) ==
  IF pl = <<>> THEN <<>>
  ELSE <<"\"">> \o Head(pl) \o <<"\"">>
       \o (IF Tail(pl) = <<>> THEN <<>> ELSE <<",">> \o JoinStrings(Tail(pl)))

\* The text {"paragraphs": ["p1","p2",...]} the prompt asks for.
Encode(pl) ==
  <<"{", "\"", "paragraphs", "\"", ":", " ", "[">> \o JoinStrings(pl)
    \o <<"]", "}">>

FencedJson(j) == <<"~~~", "json", " ">> \o j \o <<" ", "~~~">>
FencedBare(j) == <<"~~~", " ">> \o j \o <<" ", "~~~">>
FencedProse(j) == <<"a", " ">> \o FencedJson(j) \o <<" ", "a">>

ValidTexts == {Encode(pl) : pl \in ParaLists}

\* The texts cut off before their end.
TruncatedTexts ==
  UNION {{SubSeq(j, 1, k) : k \in 1..(Len(j) - 1)} : j \in ValidTexts}

\* One-member objects {"key":value}, with and without the paragraphs key.
ObjectTexts ==
  {<<"{", "\"">> \o key \o <<"\"", ":">> \o value \o <<"}">> :
     key \in {<<"paragraphs">>, <<"a">>},
     value \in {<<"1">>, <<"\"", "a", "\"">>, <<"\"", "paragraphs", "\"">>,
                <<"\"", "\"">>, <<"[", "]">>, <<"[", "1", "]">>,
                <<"[", "\"", "a", "\"", ",", "1", "]">>, <<"{", "}">>}}

ShortTexts == SeqsUpTo(Alphabet, MaxShortLen) \ {<<>>}

Contents ==
  {[content |-> j, shape |-> "json"] : j \in ValidTexts}
  \cup {[content |-> FencedJson(j), shape |-> "fenced_json"] : j \in ValidTexts}
  \cup {[content |-> FencedBare(j), shape |-> "fenced"] : j \in ValidTexts}
  \cup {[content |-> FencedProse(j), shape |-> "fenced_prose"] : j \in ValidTexts}
  \cup {[content |-> t, shape |-> "truncated"] : t \in TruncatedTexts}
  \cup {[content |-> t, shape |-> "object"] : t \in ObjectTexts}
  \cup {[content |-> t, shape |-> "short"] : t \in ShortTexts}
  \cup {[content |-> <<>>, shape |-> "empty"],
        [content |-> NoneContent, shape |-> "empty"]}

\* Every answer of the backend to one call.
Backend ==
  {Response(FALSE, c.content, f, c.shape) : c \in Contents, f \in FinishReasons}
  \cup {Response(TRUE, <<>>, "none", "api_error")}

\* The answers the multi-chunk runs draw from: a few paragraph lists, as
\* JSON, fenced and truncated, prose, an empty completion, a failed call.
SampleLists ==
  {<<>>, << <<"a">> >>, << <<"a", "a">> >>, << <<"a">>, <<"a", "a">> >>}

SampleContents ==
  {[content |-> Encode(pl), shape |-> "json"] : pl \in SampleLists}
  \cup {[content |-> FencedJson(Encode(<< <<"1">> >>)), shape |-> "fenced_json"],
        [content |-> SubSeq(Encode(<< <<"a">> >>), 1, 9), shape |-> "truncated"],
        [content |-> <<"a", " ", "a">>, shape |-> "short"],
        [content |-> <<>>, shape |-> "empty"],
        [content |-> NoneContent, shape |-> "empty"]}

SampleBackend ==
  {Response(FALSE, c.content, f, c.shape) :
     c \in SampleContents, f \in FinishReasons}
  \cup {Response(TRUE, <<>>, "none", "api_error")}

(***************************************************************************)
(* The state machine: one process_book_text call.                          *)
(***************************************************************************)
TypeOK ==
  /\ api_key \in {"", "sk"}
  /\ pc \in {"ready", "loop", "returned", "raised"}
  /\ chunk_size \in Nat \ {0}
  /\ sub_index \in Nat

Init ==
  /\ api_key \in {"", "sk"}
  /\ book_text \in SeqsUpTo(BookAlphabet, MaxTextLen)
  /\ chunk_size \in 1..MaxChunkSize
  /\ pc = "ready"
  /\ text_chunks = <<>>
  /\ sub_index = 0
  /\ all_paragraphs = <<>>
  /\ calls = <<>>
  /\ returned = <<>>
  /\ response = NoResponse
  /\ outcome = NoOutcome
  /\ result = NoResult

\* One submission whose text is a single chunk.
InitRecover ==
  /\ api_key = "sk"
  /\ book_text = <<"a">>
  /\ chunk_size = 1
  /\ pc = "ready"
  /\ text_chunks = <<>>
  /\ sub_index = 0
  /\ all_paragraphs = <<>>
  /\ calls = <<>>
  /\ returned = <<>>
  /\ response = NoResponse
  /\ outcome = NoOutcome
  /\ result = NoResult

\* Lines 21-31: the key check, then the split.
Start ==
  /\ pc = "ready"
  /\ IF api_key = ""
       THEN /\ pc' = "raised"
            /\ result' = Failure("api_key_not_configured")
            /\ UNCHANGED <<text_chunks, sub_index>>
       ELSE /\ pc' = "loop"
            /\ text_chunks' = ChunkBookText(book_text, chunk_size)
            /\ sub_index' = 1
            /\ UNCHANGED result
  /\ UNCHANGED <<api_key, book_text, chunk_size, all_paragraphs, calls,
                 returned, response, outcome>>

\* Lines 33-45: one iteration of the loop: the backend is called for
\* sub-chunk sub_index and answers with one of answers; an exception of
\* _process_single_chunk leaves process_book_text.
ProcessChunk(answers) ==
  /\ pc = "loop"
  /\ sub_index <= Len(text_chunks)
  /\ \E resp \in answers :
       LET o == ProcessSingleChunk(resp)
       IN  /\ response' = resp
           /\ outcome' = o
           /\ calls' = Append(calls, [sub_index |-> sub_index,
                                      sub_total |-> Len(text_chunks),
                                      book_text |-> text_chunks[sub_index]])
           /\ IF o.kind = "raise"
                THEN /\ pc' = "raised"
                     /\ result' = Failure(o.error)
                     /\ UNCHANGED <<all_paragraphs, returned, sub_index>>
                ELSE /\ all_paragraphs' = Extend(all_paragraphs, o.paragraphs)
                     /\ returned' = Append(returned, o.paragraphs)
                     /\ sub_index' = sub_index + 1
                     /\ UNCHANGED <<pc, result>>
  /\ UNCHANGED <<api_key, book_text, chunk_size, text_chunks>>

\* Lines 47-51: the loop is over.
Return ==
  /\ pc = "loop"
  /\ sub_index > Len(text_chunks)
  /\ pc' = "returned"
  /\ result' = AggregateResult(all_paragraphs)
  /\ UNCHANGED <<api_key, book_text, chunk_size, text_chunks, sub_index,
                 all_paragraphs, calls, returned, response, outcome>>

ProcessSampleChunk == ProcessChunk(SampleBackend)

ProcessAnyChunk == ProcessChunk(Backend)

Next == Start \/ ProcessSampleChunk \/ Return

NextRecover == Start \/ ProcessAnyChunk \/ Return

\* Any text, any chunk size, the sample answers.
Spec == Init /\ [][Next]_vars

\* One chunk, every answer.
SpecRecover == InitRecover /\ [][NextRecover]_vars

(***************************************************************************)
(* Properties.                                                             *)
(***************************************************************************)
\* The text was split: process_book_text got past the key check.
Chunked == pc # "ready" /\ api_key # ""

\* The backend answered the last call (it did not fail).
Answered == response.finish_reason \in FinishReasons

\* C1: after each sub-chunk the accumulator is the concatenation, in
\* sub-chunk order, of the lists returned so far; when no call failed the
\* result has status success, that concatenation as paragraphs and its
\* length as total_paragraphs, one list per sub-chunk.
C1_OrderPreserved ==
  /\ all_paragraphs = Flatten(returned)
  /\ pc = "loop" => Len(returned) = sub_index - 1
  /\ pc = "returned" =>
       /\ Len(returned) = Len(text_chunks)
       /\ result.status = "success"
       /\ result.paragraphs = Flatten(returned)
       /\ result.total_paragraphs = Len(Flatten(returned))

\* Three sub-chunks answered with three different non-empty lists.
C1_Witness ==
  /\ pc = "returned"
  /\ Len(returned) = 3
  /\ returned[1] # <<>> /\ returned[2] # <<>> /\ returned[3] # <<>>
  /\ returned[1] # returned[2]
  /\ returned[2] # returned[3]
  /\ result.total_paragraphs = 5

\* C2: a failed sub-chunk k (the call failed, the completion was empty or
\* of an invalid format) leaves process_book_text at once: k is the last
\* call issued, nothing is returned, not even the paragraphs of the
\* sub-chunks before it, and nothing happens afterwards.
C2_FailFast ==
  /\ [](/\ (response.api_error \/ (Answered /\ TextContent(response.content) = <<>>))
             => outcome.kind = "raise"
        /\ outcome.kind = "raise" =>
             /\ pc = "raised"
             /\ Len(calls) = sub_index
             /\ Len(returned) = sub_index - 1
             /\ result.status = "raised"
             /\ result.paragraphs = <<>>
        /\ result.status = "success" => Len(returned) = Len(text_chunks))
  /\ [][pc = "raised" => /\ pc' = "raised"
                         /\ calls' = calls
                         /\ result' = result]_vars

\* Sub-chunk 2 of 3 failed after sub-chunk 1 had returned paragraphs.
C2_Witness ==
  /\ pc = "raised"
  /\ response.api_error
  /\ Len(text_chunks) = 3
  /\ Len(calls) = 2
  /\ all_paragraphs # <<>>
  /\ result.status = "raised"

\* C3: the chunks, concatenated in order, are the text: chunk k is the
\* text from offset (k - 1) * chunk_size up to k * chunk_size or the end.
C3_ChunksReconstruct ==
  Chunked =>
    /\ Flatten(text_chunks) = book_text
    /\ \A k \in 1..Len(text_chunks) :
         text_chunks[k] = SubSeq(book_text, (k - 1) * chunk_size + 1,
                                 Min(k * chunk_size, Len(book_text)))

\* A text of two different chunks, the last one short.
C3_Witness ==
  /\ Chunked
  /\ Len(text_chunks) = 2
  /\ Len(text_chunks[2]) < Len(text_chunks[1])
  /\ text_chunks[1][1] # text_chunks[2][1]

\* C4: no chunk for the empty text; otherwise every chunk but the last has
\* chunk_size characters and the last has Len(text) mod chunk_size, or
\* chunk_size when that is 0, so that no chunk is empty.
C4_ChunkLengths ==
  Chunked =>
    LET n == Len(text_chunks)
        r == Len(book_text) % chunk_size
    IN  /\ book_text = <<>> <=> n = 0
        /\ \A k \in 1..(n - 1) : Len(text_chunks[k]) = chunk_size
        /\ n > 0 => Len(text_chunks[n]) = (IF r = 0 THEN chunk_size ELSE r)
        /\ \A k \in 1..n : text_chunks[k] # <<>>

\* A text that is not a multiple of the chunk size, of several chunks.
C4_Witness ==
  /\ Chunked
  /\ chunk_size = 2
  /\ Len(book_text) = 3
  /\ Len(text_chunks) = 2
  /\ Len(text_chunks[2]) = 1

\* C5: an empty completion (no characters, or None) makes the call raise
\* at the empty-response check, before any other stage, and the submission
\* ends without a result; it is never an empty paragraph list.
C5_EmptyCompletionRaises ==
  (Answered /\ TextContent(response.content) = <<>>) =>
    /\ outcome.kind = "raise"
    /\ outcome.error = "empty_response"
    /\ outcome.stage = "empty"
    /\ pc = "raised"
    /\ result.status = "raised"
    /\ Len(returned) = sub_index - 1

\* Sub-chunk 2 of 3 got a None completion after sub-chunk 1 returned.
C5_Witness ==
  /\ response.content = NoneContent
  /\ Len(text_chunks) = 3
  /\ sub_index = 2
  /\ returned # <<>> /\ returned[1] # <<>>
  /\ pc = "raised"

\* The paragraphs field of a text that json.loads reads as a dict.
DirectParagraphs(text) == DictGet(JsonLoads(text).val, <<"paragraphs">>)

\* json.loads reads the text as an object.
ParsesAsObject(text) == JsonLoads(text).ok /\ JsonLoads(text).val.t = "dict"

\* C6: a completion that parses directly as an object whose paragraphs
\* field is a list, of any length, is returned as exactly that list by the
\* direct parse, without raising.
C6_DirectParseReturnsList ==
  LET text == TextContent(response.content)
  IN  (Answered /\ ParsesAsObject(text) /\ DirectParagraphs(text).t = "list") =>
        /\ outcome.kind = "return"
        /\ outcome.stage = "direct"
        /\ outcome.paragraphs = DirectParagraphs(text).items

\* No JSON is obtained from the text: json.loads fails on it, and either
\* no candidate object is found or the repaired candidate fails to parse.
NoJsonObtained(text) ==
  /\ ~JsonLoads(text).ok
  /\ LET m == JsonObjectMatch(FenceStripped(text))
     IN  ~m.found \/ ~JsonLoads(RepairBrackets(m.group)).ok

\* C7: a non-empty completion from which no JSON is obtained yields the
\* empty list, and the loop goes on; a valid text cut off before its end
\* yields the empty list too, and never raises.
C7_MalformedNeverRaises ==
  LET text == TextContent(response.content)
  IN  /\ (Answered /\ text # <<>> /\ NoJsonObtained(text)) =>
           /\ outcome.kind = "return"
           /\ outcome.paragraphs = <<>>
           /\ pc # "raised"
      /\ response.shape = "truncated" =>
           /\ outcome.kind = "return"
           /\ outcome.paragraphs = <<>>
           /\ pc # "raised"

\* Every element is a string.
AllStrings(v) == \A i \in 1..Len(v.items) : v.items[i].t = "str"

\* C8: a completion that is a JSON object whose paragraphs field is
\* missing or is not a list of strings makes the call raise the
\* invalid-format error; it is never returned as a list.
C8_InvalidFormatRaises ==
  LET text == TextContent(response.content)
      p == DirectParagraphs(text)
  IN  (Answered /\ ParsesAsObject(text)
         /\ (p.t # "list" \/ ~AllStrings(p))) =>
        /\ outcome.kind = "raise"
        /\ outcome.error = "invalid_format"
        /\ pc = "raised"

\* The JSON text inside a fenced answer.
Unfenced(resp) ==
  LET c == resp.content
  IN  IF resp.shape = "fenced_json" THEN SubSeq(c, 4, Len(c) - 2)
      ELSE IF resp.shape = "fenced" THEN SubSeq(c, 3, Len(c) - 2)
      ELSE SubSeq(c, 6, Len(c) - 4)

\* C9: a valid {"paragraphs": [...]} text inside a fenced block, with or
\* without prose around it, gives what the text alone gives, whatever the
\* paragraphs hold.
C9_FenceTransparent ==
  response.shape \in {"fenced_json", "fenced", "fenced_prose"} =>
    LET alone == ProcessCompletion(Unfenced(response), response.finish_reason)
    IN  /\ outcome.kind = alone.kind
        /\ outcome.paragraphs = alone.paragraphs

\* The other finish reason.
OtherFinish(f) == IF f = "stop" THEN "length" ELSE "stop"

\* C10: the same completion with the other finish reason has the same
\* outcome, the same list or the same failure, and a length finish whose
\* text yields a list leaves the loop running.
C10_FinishReasonIgnored ==
  Answered =>
    LET other == ProcessSingleChunk(
                   [response EXCEPT !.finish_reason = OtherFinish(@)])
    IN  /\ outcome.kind = other.kind
        /\ outcome.paragraphs = other.paragraphs
        /\ outcome.error = other.error
        /\ (response.finish_reason = "length" /\ other.kind = "return") =>
             /\ pc # "raised"
             /\ result.status # "raised"
             /\ Len(returned) = Len(calls)

\* A truncation-flagged answer whose paragraphs were recovered and returned.
C10_Witness ==
  /\ response.finish_reason = "length"
  /\ outcome.warned
  /\ outcome.stage = "recovered"
  /\ outcome.paragraphs # <<>>
  /\ pc = "returned"
  /\ result.paragraphs = outcome.paragraphs

====
